---- MODULE Spec2Model ----
(***************************************************************************)
(* A model of the analytical image filters of clear_face_detection         *)
(* (generateAnalyticalViews and the four per-pixel filters it runs) and of  *)
(* the upload flow of the Index page that leads to them, of                 *)
(* performAIAnalysis with its scores and its two models, and of the         *)
(* 'Extract Current Frame' button of the MediaFrameExtractor.               *)
(*                                                                         *)
(* Rasters are records [width, height, data].  data holds the row-major     *)
(* RGBA samples of an ImageData grouped by pixel: data[p] is the tuple      *)
(* <<R, G, B, A>> of pixel p = y*width + x, so that sample idx of the flat  *)
(* array, idx = (y*width + x)*4 + c, is At(data, idx) = data[p][c + 1].     *)
(*                                                                         *)
(* JavaScript numbers are modelled as exact reals: a rational is a          *)
(* numerator over a positive denominator, a square root is kept under the   *)
(* root until it is stored.  A store into a Uint8ClampedArray rounds to     *)
(* the nearest integer, ties to even, and clamps to 0..255.  Where the      *)
(* exact value is a tie the rounding error of the doubles decides the      *)
(* direction in the browser; the properties below accept either neighbour.  *)
(* All integer arithmetic is arranged to stay below 2^31.                   *)
(***************************************************************************)
EXTENDS Integers, Sequences, FiniteSets, TLC

\* Largest image width and height the model explores.
MaxW == 5
MaxH == 5

\* How often a filter is called again on one decoded buffer.
MaxCalls == 2

\* No raster (yet): a record, so that it compares with rasters.
Null == [width |-> 0, height |-> 0, data |-> <<>>]

\* Pixel colours <<R, G, B, A>> the decoded images are built from.
Black == <<0, 0, 0, 255>>
White == <<255, 255, 255, 255>>
Red   == <<255, 0, 0, 128>>
Tan   == <<200, 100, 50, 255>>
Gray  == <<85, 85, 85, 255>>
Palette == {Black, White, Red, Tan, Gray}

Abs(n) == IF n < 0 THEN -n ELSE n
Min(a, b) == IF a < b THEN a ELSE b
Max(a, b) == IF a > b THEN a ELSE b
Max3(a, b, c) == Max(a, Max(b, c))
Min3(a, b, c) == Min(a, Min(b, c))

----------------------------------------------------------------------------
(* Number conversions *)

\* Storing the rational num/den (den > 0) into a Uint8ClampedArray element.
ToUint8Clamp(num, den) ==
  IF num <= 0 THEN 0
  ELSE IF num >= 255 * den THEN 255
  ELSE LET q == num \div den
           r2 == 2 * (num % den)
       IN IF r2 < den THEN q
          ELSE IF r2 > den THEN q + 1
          ELSE IF q % 2 = 0 THEN q ELSE q + 1

\* Storing a real x given as h = floor(2x) and whether 2x is exactly h.
RoundHalves(h, exact) ==
  IF h <= 0 THEN 0
  ELSE IF h >= 510 THEN 255
  ELSE IF h % 2 = 0 THEN h \div 2
  ELSE IF exact /\ ((h - 1) \div 2) % 2 = 0 THEN (h - 1) \div 2
  ELSE (h + 1) \div 2

\* The sign of x^2 + y^2 - z^2 for 0 <= x, y, z < 10^6, in base-1000 limbs.
SumSqCmp(x, y, z) ==
  LET x1 == x \div 1000  x0 == x % 1000
      y1 == y \div 1000  y0 == y % 1000
      z1 == z \div 1000  z0 == z % 1000
      A == x1 * x1 + y1 * y1 - z1 * z1
      B == 2 * (x1 * x0 + y1 * y0 - z1 * z0)
      C == x0 * x0 + y0 * y0 - z0 * z0
      B2 == B + (C \div 1000)
      C0 == C % 1000
      A2 == A + (B2 \div 1000)
      B0 == B2 % 1000
  IN IF A2 > 0 THEN 1
     ELSE IF A2 < 0 THEN -1
     ELSE IF B0 = 0 /\ C0 = 0 THEN 0 ELSE 1

RECURSIVE HypotSearch(_, _, _, _)
HypotSearch(x, y, lo, hi) ==
  IF lo >= hi THEN lo
  ELSE LET mid == (lo + hi + 1) \div 2
       IN IF SumSqCmp(x, y, mid) >= 0 THEN HypotSearch(x, y, mid, hi)
          ELSE HypotSearch(x, y, lo, mid - 1)

\* floor(Math.sqrt(x*x + y*y)) for 0 <= x, y < 10^6 / 2.
HypotFloor(x, y) == HypotSearch(x, y, Max(x, y), x + y)

\* r^2 <= k^2 * n for k >= 1, without forming either product in full.
SqLeqScaled(r, k, n) ==
  LET r1 == r \div k
      r0 == r % k
      rest == 2 * k * r1 * r0 + r0 * r0
  IN r1 * r1 + ((rest + k * k - 1) \div (k * k)) <= n

\* r^2 = k^2 * n.
SqEqScaled(r, k, n) ==
  LET r1 == r \div k
      r0 == r % k
      rest == 2 * k * r1 * r0 + r0 * r0
  IN rest % (k * k) = 0 /\ r1 * r1 + (rest \div (k * k)) = n

RECURSIVE SqrtSearch(_, _, _, _)
SqrtSearch(k, n, lo, hi) ==
  IF lo >= hi THEN lo
  ELSE LET mid == (lo + hi + 1) \div 2
       IN IF SqLeqScaled(mid, k, n) THEN SqrtSearch(k, n, mid, hi)
          ELSE SqrtSearch(k, n, lo, mid - 1)

\* floor(k * Math.sqrt(n)) for 0 <= n < 2^27 and 1 <= k <= 8.
SqrtFloor(k, n) == SqrtSearch(k, n, 0, k * 11586)

----------------------------------------------------------------------------
(* Rasters and the canvas *)

\* An allocation that takes its arguments in the other order.
NewImageDataTransposed(width, height) ==
  [width |-> height, height |-> width,
   data |-> [p \in 0 .. (width * height - 1) |-> <<0, 0, 0, 0>>]]

\* An allocation that starts opaque, as a filled canvas would.
NewImageDataOpaque(width, height) ==
  [width |-> width, height |-> height,
   data |-> [p \in 0 .. (width * height - 1) |-> <<0, 0, 0, 255>>]]

\* new ImageData(width, height): every sample 0.
NewImageData(width, height) ==
  [width |-> width, height |-> height,
   data |-> [p \in 0 .. (width * height - 1) |-> <<0, 0, 0, 0>>]]

\* Sample idx of the flat sample array.
At(data, idx) == data[idx \div 4][(idx % 4) + 1]

\* The samples of a raster whose pixel (x, y) is px(x, y).
Samples(width, height, px(_, _)) ==
  [p \in 0 .. (width * height - 1) |-> px(p % width, p \div width)]

PixelAt(raster, x, y) == raster.data[y * raster.width + x]

\* A canvas keeps its bitmap premultiplied by alpha.
Premultiply(px) ==
  LET a == px[4]
      pm(c) == (c * a + 127) \div 255
  IN <<pm(px[1]), pm(px[2]), pm(px[3]), a>>

Unpremultiply(px) ==
  LET a == px[4]
      un(c) == IF a = 0 THEN 0 ELSE Min(255, (c * 255 + (a \div 2)) \div a)
  IN <<un(px[1]), un(px[2]), un(px[3]), a>>

\* canvas.width = w; canvas.height = h: a cleared (transparent black) bitmap.
SetCanvasSize(width, height) ==
  [width |-> width, height |-> height,
   data |-> [p \in 0 .. (width * height - 1) |-> <<0, 0, 0, 0>>]]

\* ctx.drawImage(img, 0, 0) and ctx.putImageData(raster, 0, 0): the pixels of
\* raster that fall inside the canvas replace the canvas's.
PutPixels(canvas, raster) ==
  LET px(x, y) == IF x < raster.width /\ y < raster.height
                  THEN Premultiply(PixelAt(raster, x, y))
                  ELSE PixelAt(canvas, x, y)
  IN [width |-> canvas.width, height |-> canvas.height,
      data |-> Samples(canvas.width, canvas.height, px)]

drawImage(canvas, image) == PutPixels(canvas, image)

\* A putImageData that composites like drawImage does (source-over): where the
\* raster is transparent the canvas keeps what it held.
putImageDataOver(canvas, raster) ==
  LET px(x, y) == IF x < raster.width /\ y < raster.height
                     /\ PixelAt(raster, x, y)[4] # 0
                  THEN Premultiply(PixelAt(raster, x, y))
                  ELSE PixelAt(canvas, x, y)
  IN [width |-> canvas.width, height |-> canvas.height,
      data |-> Samples(canvas.width, canvas.height, px)]

putImageData(canvas, raster) == PutPixels(canvas, raster)

\* ctx.getImageData(0, 0, canvas.width, canvas.height)
getImageData(canvas) ==
  LET px(x, y) == Unpremultiply(PixelAt(canvas, x, y))
  IN [width |-> canvas.width, height |-> canvas.height,
      data |-> Samples(canvas.width, canvas.height, px)]

\* canvas.toDataURL(): a lossless (PNG) encoding of the canvas, held as the
\* raster it decodes to.
toDataURL(canvas) == getImageData(canvas)

----------------------------------------------------------------------------
(* The four filters: each returns the outputData it builds *)

\* Assignments that set the three colour samples and forget idx + 3.
StorePixelNoAlpha(old, v) == <<v[1], v[2], v[3], old[4]>>

\* The four assignments outputData.data[idx .. idx + 3] = v of a loop body,
\* on a pixel that held old.
StorePixel(old, v) == <<v[1], v[2], v[3], v[4]>>

\* The loops of a filter: for every pixel (x, y) the loop bounds reach (inside),
\* the four samples at idx .. idx + 3 are assigned px(x, y); every other sample
\* of outputData keeps the value it was allocated with.
WritePixels(outputData, width, height, inside(_, _), px(_, _)) ==
  [outputData EXCEPT !.data =
     [p \in DOMAIN outputData.data |->
        IF p < width * height /\ inside(p % width, p \div width)
        THEN StorePixel(outputData.data[p], px(p % width, p \div width))
        ELSE outputData.data[p]]]

\* A horizontal response that leaves out the weight 2 of the centre row.
SobelGxUnweighted(data, width, x, y) ==
  At(data, ((y - 1) * width + (x + 1)) * 4) - At(data, ((y - 1) * width + (x - 1)) * 4)
  + (At(data, (y * width + (x + 1)) * 4) - At(data, (y * width + (x - 1)) * 4))
  + At(data, ((y + 1) * width + (x + 1)) * 4) - At(data, ((y + 1) * width + (x - 1)) * 4)

\* A horizontal response on adjacent columns (x, x + 1) instead of the two
\* columns around x.
SobelGxForward(data, width, x, y) ==
  At(data, ((y - 1) * width + (x + 1)) * 4) - At(data, ((y - 1) * width + x) * 4)
  + 2 * (At(data, (y * width + (x + 1)) * 4) - At(data, (y * width + x) * 4))
  + At(data, ((y + 1) * width + (x + 1)) * 4) - At(data, ((y + 1) * width + x) * 4)

\* A horizontal response on the green samples.
SobelGxGreen(data, width, x, y) ==
  At(data, ((y - 1) * width + (x + 1)) * 4 + 1) - At(data, ((y - 1) * width + (x - 1)) * 4 + 1)
  + 2 * (At(data, (y * width + (x + 1)) * 4 + 1) - At(data, (y * width + (x - 1)) * 4 + 1))
  + At(data, ((y + 1) * width + (x + 1)) * 4 + 1) - At(data, ((y + 1) * width + (x - 1)) * 4 + 1)

\* The horizontal Sobel response at (x, y), on the red samples.
SobelGx(data, width, x, y) ==
  At(data, ((y - 1) * width + (x + 1)) * 4) - At(data, ((y - 1) * width + (x - 1)) * 4)
  + 2 * (At(data, (y * width + (x + 1)) * 4) - At(data, (y * width + (x - 1)) * 4))
  + At(data, ((y + 1) * width + (x + 1)) * 4) - At(data, ((y + 1) * width + (x - 1)) * 4)

\* A vertical response that leaves out the row below.
SobelGyTopRow(data, width, x, y) ==
  At(data, ((y - 1) * width + (x - 1)) * 4) + 2 * At(data, ((y - 1) * width + x) * 4)
  + At(data, ((y - 1) * width + (x + 1)) * 4)

\* The vertical Sobel response at (x, y), on the red samples.
SobelGy(data, width, x, y) ==
  At(data, ((y - 1) * width + (x - 1)) * 4) + 2 * At(data, ((y - 1) * width + x) * 4)
  + At(data, ((y - 1) * width + (x + 1)) * 4)
  - At(data, ((y + 1) * width + (x - 1)) * 4) - 2 * At(data, ((y + 1) * width + x) * 4)
  - At(data, ((y + 1) * width + (x + 1)) * 4)

\* The pixels the loops of the Edge and Lighting filters reach.
InsideRing1(width, height, x, y) ==
  1 <= y /\ y < height - 1 /\ 1 <= x /\ x < width - 1

generateEdgeDetection(imageData) ==
  LET data == imageData.data
      width == imageData.width
      height == imageData.height
      outputData == NewImageData(width, height)
      \* value = Math.min(255, Math.sqrt(gx*gx + gy*gy)), as stored
      value(x, y) ==
        LET gx == 2 * Abs(SobelGx(data, width, x, y))
            gy == 2 * Abs(SobelGy(data, width, x, y))
            h == HypotFloor(gx, gy)
        IN RoundHalves(h, SumSqCmp(gx, gy, h) = 0)
      inside(x, y) == InsideRing1(width, height, x, y)
      px(x, y) == LET v == value(x, y) IN <<v, v, v, 255>>
  IN WritePixels(outputData, width, height, inside, px)

windowSize == 5

\* A gray that reads the red sample alone, as the Edge filter does.
Gray3RedOnly(data, idx) == 3 * At(data, idx)

\* 3 * gray of the pixel at sample index idx: gray = (R + G + B) / 3.
Gray3(data, idx) == At(data, idx) + At(data, idx + 1) + At(data, idx + 2)

\* The pixels the loops of the Texture filter reach.
InsideWindow(width, height, x, y) ==
  LET halfWindow == windowSize \div 2
  IN halfWindow <= y /\ y < height - halfWindow
     /\ halfWindow <= x /\ x < width - halfWindow

RECURSIVE SumOver(_, _)
\* The sum of f over the set S of integers.
SumOver(f, S) ==
  IF S = {} THEN 0
  ELSE LET e == CHOOSE e \in S : TRUE IN f[e] + SumOver(f, S \ {e})

generateTextureAnalysis(imageData) ==
  LET data == imageData.data
      width == imageData.width
      height == imageData.height
      outputData == NewImageData(width, height)
      halfWindow == windowSize \div 2
      window == 0 .. (windowSize * windowSize - 1)
      \* 3 * gray of the k-th sample of the window around (x, y)
      gray3(x, y, k) ==
        LET dy == (k \div windowSize) - halfWindow
            dx == (k % windowSize) - halfWindow
            idx == ((y + dy) * width + (x + dx)) * 4
        IN Gray3(data, idx)
      px(x, y) ==
        LET g3 == [k \in window |-> gray3(x, y, k)]
            count == Cardinality(window)
            sum3 == SumOver(g3, window)
            \* gray - mean = dev[k] / (3 * count)
            dev == [k \in window |-> count * g3[k] - sum3]
            \* the sum of dev^2, divided by count: quotients and remainders apart
            quo == [k \in window |-> (dev[k] * dev[k]) \div count]
            rem == [k \in window |-> (dev[k] * dev[k]) % count]
            V == SumOver(quo, window) + (SumOver(rem, window) \div count)
            \* variance = V / (9 * count^2), so Math.sqrt(variance) * 3 = sqrt(V) / count
            clamped == SqrtFloor(1, V) >= 255 * count
            \* 2 * (k / (2 * d)) * sqrt(V), floored, decides the stored sample
            stored(k, d) ==
              LET h == SqrtFloor(k, V) \div d
              IN RoundHalves(h, SqEqScaled(h * d, k, V))
        IN IF clamped
           THEN <<255, ToUint8Clamp(255 * 8, 10), ToUint8Clamp(255 * 6, 10), 255>>
           ELSE <<stored(2, count), stored(8, 5 * count), stored(6, 5 * count), 255>>
      inside(x, y) == InsideWindow(width, height, x, y)
  IN WritePixels(outputData, width, height, inside, px)

\* A luminance with the red and the green weight exchanged.
Luminance1000Swapped(data, idx) ==
  587 * At(data, idx) + 299 * At(data, idx + 1) + 114 * At(data, idx + 2)

\* A luminance that adds the three samples without their weights.
Luminance1000Unweighted(data, idx) ==
  1000 * (At(data, idx) + At(data, idx + 1) + At(data, idx + 2))

\* 1000 * (0.299 * R + 0.587 * G + 0.114 * B) of the pixel at sample index idx.
Luminance1000(data, idx) ==
  299 * At(data, idx) + 587 * At(data, idx + 1) + 114 * At(data, idx + 2)

generateLightingAnalysis(imageData) ==
  LET data == imageData.data
      width == imageData.width
      height == imageData.height
      outputData == NewImageData(width, height)
      px(x, y) ==
        LET idx == (y * width + x) * 4
            luminance == Luminance1000(data, idx)
            leftLum == Luminance1000(data, (y * width + (x - 1)) * 4)
            rightLum == Luminance1000(data, (y * width + (x + 1)) * 4)
            topLum == Luminance1000(data, ((y - 1) * width + x) * 4)
            bottomLum == Luminance1000(data, ((y + 1) * width + x) * 4)
            horizontalGrad == Abs(rightLum - leftLum)
            verticalGrad == Abs(bottomLum - topLum)
            \* 2000 * gradientMagnitude, floored, and whether that is exact
            gm2 == HypotFloor(2 * horizontalGrad, 2 * verticalGrad)
            gmExact == SumSqCmp(2 * horizontalGrad, 2 * verticalGrad, gm2) = 0
            \* enhancedValue = Math.min(255, gradientMagnitude * 2)
            clamped == gm2 >= 255 * 1000
        IN IF clamped
           THEN <<ToUint8Clamp(luminance + 255 * 1000, 2000), 255,
                  ToUint8Clamp(3 * luminance, 10000), 255>>
           ELSE <<RoundHalves((luminance + gm2) \div 1000,
                              gmExact /\ (luminance + gm2) % 1000 = 0),
                  RoundHalves(gm2 \div 500, gmExact /\ gm2 % 500 = 0),
                  ToUint8Clamp(3 * luminance, 10000), 255>>
      inside(x, y) == InsideRing1(width, height, x, y)
  IN WritePixels(outputData, width, height, inside, px)

\* Rationals are pairs <<numerator, denominator>>.
Saturation(r, g, b) ==
  LET max == Max3(r, g, b)
      min == Min3(r, g, b)
  IN IF max = 0 THEN <<0, 1>> ELSE <<max - min, max>>

ColorUniformity(r, g, b) == <<255 - Abs(r - g) - Abs(g - b) - Abs(r - b), 255>>

\* A test that asks for both conditions instead of either.
ArtificialnessAnd(r, g, b) ==
  LET saturation == Saturation(r, g, b)
      colorUniformity == ColorUniformity(r, g, b)
  IN IF 10 * saturation[1] > 8 * saturation[2]
        /\ 10 * colorUniformity[1] > 9 * colorUniformity[2]
     THEN <<255, 1>>
     ELSE <<saturation[1] * 255, saturation[2]>>

\* A test that leaves the colour uniformity out.
ArtificialnessSaturationOnly(r, g, b) ==
  LET saturation == Saturation(r, g, b)
  IN IF 10 * saturation[1] > 8 * saturation[2]
     THEN <<255, 1>>
     ELSE <<saturation[1] * 255, saturation[2]>>

Artificialness(r, g, b) ==
  LET saturation == Saturation(r, g, b)
      colorUniformity == ColorUniformity(r, g, b)
  IN IF 10 * saturation[1] > 8 * saturation[2]
        \/ 10 * colorUniformity[1] > 9 * colorUniformity[2]
     THEN <<255, 1>>
     ELSE <<saturation[1] * 255, saturation[2]>>

\* Loops that skip the border ring like those of the other three filters.
InsideAllButRing(width, height, x, y) ==
  1 <= y /\ y < height - 1 /\ 1 <= x /\ x < width - 1

\* The pixels the loops of the Color filter reach.
InsideAll(width, height, x, y) == 0 <= y /\ y < height /\ 0 <= x /\ x < width

generateColorDistribution(imageData) ==
  LET data == imageData.data
      width == imageData.width
      height == imageData.height
      outputData == NewImageData(width, height)
      px(x, y) ==
        LET idx == (y * width + x) * 4
            r == At(data, idx)
            g == At(data, idx + 1)
            b == At(data, idx + 2)
            artificialness == Artificialness(r, g, b)
            mix(c, w) == ToUint8Clamp(3 * c * artificialness[2] + w * artificialness[1],
                                      10 * artificialness[2])
        IN <<mix(r, 7), mix(g, 5), mix(b, 3), 255>>
      inside(x, y) == InsideAll(width, height, x, y)
  IN WritePixels(outputData, width, height, inside, px)

----------------------------------------------------------------------------
(* generateAnalyticalViews *)

VARIABLES
  pc,          \* where the call is: "loading", then the steps of img.onload
  img,         \* the image the file decodes to, Null if it does not decode
  canvas,      \* the bitmap of the canvas element, Null before it is sized
  imageData,   \* the decoded buffer handed to every filter
  outputData,  \* per filter, the outputData it built
  views,       \* the views object under construction
  resolved,    \* what the returned promise resolved with
  calls        \* how often the call decoded, ran each filter and resolved

\* The state of the Index page and its UploadArea.
VARIABLES
  currentStep,     \* 'landing', 'upload' or 'results'
  isAnalyzing,
  analysisResult,
  selectedFile,
  error,           \* the message the UploadArea shows
  dropped,         \* the file of the last drop or input event of the UploadArea
  analysis,        \* where the handleFileSelect in flight is, "idle" if none
  file,            \* the file performAIAnalysis was called with
  inFlight         \* how many calls of handleFileSelect have not finished

\* The state of the analysis module: its two module-level models and the call
\* of performAIAnalysis in flight.
VARIABLES
  keyed,            \* which performAIAnalysis is built in: TRUE for the
                    \* filename-keyed one, FALSE for the one of aiAnalysis.ts
  imageClassifier,  \* 0 for null, else the number of the pipeline it holds
  objectDetector,
  created,          \* per model, how many pipelines were created for it
  init,             \* per call of performAIAnalysis, where its call of
                    \* initializeModels is
  classifications,  \* what the classifier returned to the call
  result,           \* the score, confidence and views of the call, returned
                    \* when analysis = "returned"
  viewCalls,        \* how often the call invoked generateAnalyticalViews
  thrown            \* what threw during the call

\* The state of a MediaFrameExtractor mounted on a video.
VARIABLES
  extractedFrames,
  reported,         \* the last list passed to onFrameAnalysis
  pending,          \* the calls of extractCurrentFrame that wait for 'seeked'
  obtained,         \* the frames extractCurrentFrame got a data URL for
                    \* since the list was last cleared, in that order
  duration,
  currentTime

ai == <<keyed, imageClassifier, objectDetector, created, init, classifications,
        result, viewCalls, thrown>>

mfe == <<extractedFrames, reported, pending, obtained, duration, currentTime>>

page == <<currentStep, isAnalyzing, analysisResult, selectedFile, error, dropped,
          analysis, file, inFlight, ai, mfe>>

vars == <<pc, img, canvas, imageData, outputData, views, resolved, calls, page>>

ViewNames == {"edgeDetection", "textureAnalysis", "lightingAnalysis", "colorDistribution"}

\* What calls counts.
CallNames == ViewNames \cup {"getImageData", "resolve"}

\* No file, no result.
None == [none |-> TRUE]

\* The most calls of performAIAnalysis in flight at once.
MaxCallers == 2

Callers == 1 .. MaxCallers

ModelNames == {"imageClassifier", "objectDetector"}

\* The analysis module as it is loaded: let imageClassifier = null, let
\* objectDetector = null, and no call made.
ModuleLoaded ==
  /\ imageClassifier = 0
  /\ objectDetector = 0
  /\ created = [m \in ModelNames |-> 0]
  /\ init = [c \in Callers |-> "idle"]
  /\ classifications = <<>>
  /\ result = None
  /\ viewCalls = 0
  /\ thrown = {}

\* A MediaFrameExtractor as it is mounted: useState([]), useState(0).
ExtractorMounted ==
  /\ extractedFrames = <<>>
  /\ reported = <<>>
  /\ pending = <<>>
  /\ obtained = <<>>
  /\ duration = 0
  /\ currentTime = 0

\* The page as it is first rendered, whichever performAIAnalysis is built in.
Mounted ==
  /\ currentStep = "landing"
  /\ isAnalyzing = FALSE
  /\ analysisResult = None
  /\ selectedFile = None
  /\ error = ""
  /\ dropped = None
  /\ analysis = "idle"
  /\ file = None
  /\ inFlight = 0
  /\ ModuleLoaded
  /\ ExtractorMounted

\* The page as it is first rendered.
PageInit ==
  /\ Mounted
  /\ keyed = FALSE

\* A width x height image: `left` in the columns before seam, `right` in the
\* others, and the pixels spots of colour spot.
Image(width, height, left, right, seam, spots, spot) ==
  LET px(x, y) == IF (y * width + x) \in spots THEN spot
                  ELSE IF x < seam THEN left ELSE right
  IN [width |-> width, height |-> height, data |-> Samples(width, height, px)]

\* The colours of the pixels that differ from a uniform background.
SpotColours == {White, Tan}

\* The pixel spotAt alone, or with its lower right neighbour where it has one.
Spots(width, height, spotAt, pair) ==
  IF pair /\ (spotAt % width) + 1 < width /\ (spotAt \div width) + 1 < height
  THEN {spotAt, spotAt + width + 1}
  ELSE {spotAt}

\* The files the call is made on decode to: an image of one colour with one
\* pixel or two diagonal neighbours of another, or an image split in a left
\* and a right half.
Decodes ==
  \E w \in 1 .. MaxW, h \in 1 .. MaxH, left \in Palette, right \in Palette :
    \/ \E spotAt \in 0 .. (w * h - 1), spot \in SpotColours, pair \in BOOLEAN :
         /\ left = right
         /\ img = Image(w, h, left, right, 0, Spots(w, h, spotAt, pair), spot)
    \/ img = Image(w, h, left, right, w \div 2, {}, right)

\* A call before anything has run: no canvas bitmap, no buffer, no view.
Fresh ==
  /\ canvas = Null
  /\ imageData = Null
  /\ outputData = [n \in ViewNames |-> Null]
  /\ views = [n \in ViewNames |-> Null]
  /\ resolved = Null
  /\ calls = [n \in CallNames |-> 0]

\* A call on a file that decodes, once img.src is set.
Init ==
  /\ pc = "loading"
  /\ Decodes
  /\ Fresh
  /\ PageInit

\* img.onload up to getImageData
OnLoad ==
  /\ pc = "loading"
  /\ img # Null
  /\ canvas' = drawImage(SetCanvasSize(img.width, img.height), img)
  /\ imageData' = getImageData(canvas')
  /\ calls' = [calls EXCEPT !["getImageData"] = @ + 1]
  /\ pc' = "edgeDetection"
  /\ UNCHANGED <<img, outputData, views, resolved, page>>

\* A filter that builds its result in the buffer it was handed.
InvokeInPlace(name, out) ==
  /\ outputData' = [outputData EXCEPT ![name] = out]
  /\ imageData' = out
  /\ canvas' = putImageData(canvas, out)
  /\ views' = [views EXCEPT ![name] = toDataURL(canvas')]
  /\ calls' = [calls EXCEPT ![name] = @ + 1]
  /\ UNCHANGED <<img, resolved, page>>

\* A call of the filter `name`, which builds out: it puts out on the canvas
\* and returns the canvas's data URL; the buffer it read is left as it was.
Invoke(name, out) ==
  /\ outputData' = [outputData EXCEPT ![name] = out]
  /\ canvas' = putImageData(canvas, out)
  /\ views' = [views EXCEPT ![name] = toDataURL(canvas')]
  /\ calls' = [calls EXCEPT ![name] = @ + 1]
  /\ UNCHANGED <<img, imageData, resolved, page>>

\* One entry of the views literal.
RunFilter(name, out, next) ==
  /\ pc = name
  /\ Invoke(name, out)
  /\ pc' = next

\* An entry that calls the filter of another entry.
EdgeDetectionAsTexture ==
  RunFilter("edgeDetection", generateTextureAnalysis(imageData), "textureAnalysis")

EdgeDetection ==
  RunFilter("edgeDetection", generateEdgeDetection(imageData), "textureAnalysis")

TextureAnalysis ==
  RunFilter("textureAnalysis", generateTextureAnalysis(imageData), "lightingAnalysis")

LightingAnalysis ==
  RunFilter("lightingAnalysis", generateLightingAnalysis(imageData), "colorDistribution")

ColorDistribution ==
  RunFilter("colorDistribution", generateColorDistribution(imageData), "resolve")

Resolve ==
  /\ pc = "resolve"
  /\ resolved' = views
  /\ calls' = [calls EXCEPT !["resolve"] = @ + 1]
  /\ pc' = "done"
  /\ UNCHANGED <<img, canvas, imageData, outputData, views, page>>

Next ==
  \/ OnLoad
  \/ EdgeDetection
  \/ TextureAnalysis
  \/ LightingAnalysis
  \/ ColorDistribution
  \/ Resolve

Spec == Init /\ [][Next]_vars

----------------------------------------------------------------------------
(* generateAnalyticalViews from its first line, on any file *)

\* The call is made on a file that decodes to an image or on one that does not.
InitFile ==
  /\ pc = "called"
  /\ (Decodes \/ img = Null)
  /\ Fresh
  /\ PageInit

\* canvas.getContext('2d'): without a context the call throws, so the promise
\* of the async function rejects; with one, the promise is built, the onload
\* handler set and img.src assigned.
GetContext ==
  /\ pc = "called"
  /\ \E ctx \in BOOLEAN : pc' = IF ctx THEN "loading" ELSE "rejected"
  /\ UNCHANGED <<img, canvas, imageData, outputData, views, resolved, calls, page>>

\* The file does not decode: the browser fires the image's error event. The
\* call set no handler for it and the executor took no reject function, so
\* nothing runs and the promise stays pending.
OnError ==
  /\ pc = "loading"
  /\ img = Null
  /\ pc' = "failed"
  /\ UNCHANGED <<img, canvas, imageData, outputData, views, resolved, calls, page>>

NextFile ==
  \/ GetContext
  \/ OnError
  \/ OnLoad
  \/ EdgeDetection
  \/ TextureAnalysis
  \/ LightingAnalysis
  \/ ColorDistribution
  \/ Resolve

\* The filter call the onload handler has reached returns and the handler
\* moves on: the loops of a filter are bounded.
FilterReturns ==
  /\ pc \in ViewNames
  /\ pc' \in (ViewNames \cup {"resolve"}) \ {pc}

\* The call runs on, the browser delivers the load or the error event of an
\* image whose src was set, and a handler that started runs to its end.
FileSpec ==
  /\ InitFile
  /\ [][NextFile]_vars
  /\ WF_vars(GetContext)
  /\ WF_vars(OnError)
  /\ WF_vars(OnLoad)
  /\ WF_pc(FilterReturns)
  /\ WF_vars(Resolve)

----------------------------------------------------------------------------
(* The filter calls of the views literal, taken in any order and repeated, on
   one decoded buffer and one canvas *)

\* The filter the entry `name` of the views literal calls, applied to input.
FilterOf(name, input) ==
  CASE name = "edgeDetection" -> generateEdgeDetection(input)
    [] name = "textureAnalysis" -> generateTextureAnalysis(input)
    [] name = "lightingAnalysis" -> generateLightingAnalysis(input)
    [] name = "colorDistribution" -> generateColorDistribution(input)

\* img.onload has decoded a MaxW x MaxH image split in two halves; no filter
\* has been called yet.
InitCalls ==
  /\ pc = "calls"
  /\ \E left \in {White, Tan}, right \in {White, Red} :
       img = Image(MaxW, MaxH, left, right, MaxW \div 2, {}, right)
  /\ canvas = drawImage(SetCanvasSize(img.width, img.height), img)
  /\ imageData = getImageData(canvas)
  /\ outputData = [n \in ViewNames |-> Null]
  /\ views = [n \in ViewNames |-> Null]
  /\ resolved = Null
  /\ calls = [n \in CallNames |-> IF n = "getImageData" THEN 1 ELSE 0]
  /\ PageInit

\* Any filter is called, for the first time or again.
Call ==
  /\ pc = "calls"
  /\ \E name \in ViewNames :
       /\ calls[name] < MaxCalls
       /\ Invoke(name, FilterOf(name, imageData))
  /\ UNCHANGED pc

\* Every entry of the views literal has its value.
AllCalled ==
  /\ pc = "calls"
  /\ \A name \in ViewNames : calls[name] >= 1
  /\ pc' = "resolve"
  /\ UNCHANGED <<img, canvas, imageData, outputData, views, resolved, calls, page>>

NextCalls ==
  \/ Call
  \/ AllCalled
  \/ Resolve

CallsSpec == InitCalls /\ [][NextCalls]_vars

----------------------------------------------------------------------------
(* performAIAnalysis: file names, the name hash and the scores *)

\* The most parts a file name is put together from.
MaxParts == 3

\* The most entries a classifier output has.
MaxLabels == 6

\* A file name is the tuple of its UTF-16 code units.
StrFake == <<102, 97, 107, 101>>
StrGenerated == <<103, 101, 110, 101, 114, 97, 116, 101, 100>>
StrAi == <<97, 105>>

\* String.prototype.toLowerCase on the code units the names are made of.
toLowerCase(str) ==
  [k \in 1 .. Len(str) |-> IF str[k] \in 65 .. 90 THEN str[k] + 32 ELSE str[k]]

\* String.prototype.includes
includes(str, sub) ==
  \E k \in 1 .. (Len(str) - Len(sub) + 1) : SubSeq(str, k, k + Len(sub) - 1) = sub

\* The test that forgets to lower-case the name.
IsFakeFileCaseSensitive(name) ==
  includes(name, StrFake) \/ includes(name, StrGenerated) \/ includes(name, StrAi)

\* fileName.includes('fake') || fileName.includes('generated') ||
\* fileName.includes('ai'), on the lower-cased name.
IsFakeFile(name) ==
  \/ includes(toLowerCase(name), StrFake)
  \/ includes(toLowerCase(name), StrGenerated)
  \/ includes(toLowerCase(name), StrAi)

\* A JavaScript number that holds an integer n is the pair <<hi, lo>> with
\* n = hi * 65536 + lo and lo in 0..65535, so that no step leaves 32 bits.
Limbs(hi, lo) == <<hi + (lo \div 65536), lo % 65536>>

\* ToInt32(n) << 5: the low 32 bits of n * 32, read as a signed integer.
ShiftLeft5(n) ==
  LET lo32 == n[2] * 32
      hi16 == ((n[1] % 65536) * 32 + (lo32 \div 65536)) % 65536
  IN <<IF hi16 >= 32768 THEN hi16 - 65536 ELSE hi16, lo32 % 65536>>

\* One step of the reduce: ((hash << 5) - hash) + char.charCodeAt(0). The
\* shift wraps to 32 bits, the subtraction and the sum do not.
HashStep(hash, code) ==
  LET shifted == ShiftLeft5(hash)
  IN Limbs(shifted[1] - hash[1], shifted[2] - hash[2] + code)

\* The value of the reduce after the first k characters. (The singleton sets
\* bind the value of the shorter prefix, so that it is computed once.)
RECURSIVE HashFrom(_, _)
HashFrom(name, k) ==
  IF k = 0 THEN <<0, 0>>
  ELSE CHOOSE next \in {HashStep(hash, name[k]) : hash \in {HashFrom(name, k - 1)}} : TRUE

\* file.name.split('').reduce(..., 0)
fileNameHash(name) == HashFrom(name, Len(name))

\* Math.abs(n % m) for a positive m: the remainder keeps the sign of n, so
\* its absolute value is |n| mod m.
AbsRem(n, m) ==
  IF n[1] >= 0
  THEN ((n[1] % m) * (65536 % m) + n[2]) % m
  ELSE (((-n[1]) % m) * (65536 % m) - n[2]) % m

\* Math.floor(fileSizeKB), where fileSizeKB = file.size / 1024
FloorFileSizeKB(size) == size \div 1024

\* Math.round of num / den, den > 0: the nearest integer, halves upwards.
MathRound(num, den) == (2 * num + den) \div (2 * den)

\* An entry of a classifier output: whether its label contains one of the
\* naturalLabels, whether it contains one of the suspiciousLabels, and its
\* score in hundredths.
Entry(natural, suspicious, score) ==
  [natural |-> natural, suspicious |-> suspicious, score |-> score]

\* classifications.slice(0, 5)
Slice5(output) == SubSeq(output, 1, Min(5, Len(output)))

\* The score that leaves out the final clamp.
ModelScoreUnclamped(output) ==
  LET top == Slice5(output)
      natural == {k \in 1 .. Len(top) : top[k].natural}
      suspicious == {k \in 1 .. Len(top) : top[k].suspicious /\ top[k].score > 50}
      tenths == 850 + SumOver([k \in 1 .. Len(top) |-> top[k].score], natural)
                    - SumOver([k \in 1 .. Len(top) |-> 4 * top[k].score], suspicious)
      boosted == IF natural # {} /\ suspicious = {}
                 THEN Min(1000, tenths + 100) ELSE tenths
  IN MathRound(boosted, 10)

\* aiAnalysis.ts, the try block: authenticityScore in tenths starts at 850,
\* gains score * 10 per natural label and loses score * 40 per suspicious
\* label scored above 0.5 among the first five entries, gains 10 capped at 100
\* if only natural labels counted, and is rounded and clamped to 0..100.
ModelScore(output) ==
  LET top == Slice5(output)
      natural == {k \in 1 .. Len(top) : top[k].natural}
      suspicious == {k \in 1 .. Len(top) : top[k].suspicious /\ top[k].score > 50}
      tenths == 850 + SumOver([k \in 1 .. Len(top) |-> top[k].score], natural)
                    - SumOver([k \in 1 .. Len(top) |-> 4 * top[k].score], suspicious)
      boosted == IF natural # {} /\ suspicious = {}
                 THEN Min(1000, tenths + 100) ELSE tenths
  IN Max(0, Min(100, MathRound(boosted, 10)))

\* Math.round((classifications[0]?.score || 0) * 100)
ModelConfidence(output) ==
  IF output = <<>> THEN 0 ELSE MathRound(output[1].score * 100, 100)

\* The filename-keyed score, in the try block and in the catch block.
KeyedScore(name) ==
  IF IsFakeFile(name)
  THEN 15 + AbsRem(fileNameHash(name), 31)
  ELSE 75 + AbsRem(fileNameHash(name), 21)

\* aiAnalysis.ts, the catch block.
FallbackScore(name, size) ==
  IF IsFakeFile(name)
  THEN LET hash == fileNameHash(name)
       IN AbsRem(Limbs(hash[1], hash[2] + FloorFileSizeKB(size)), 60) + 20
  ELSE 70 + AbsRem(fileNameHash(name), 26)

\* The confidence of the catch block, in both versions.
FallbackConfidence(name) == Max(70, Min(95, AbsRem(fileNameHash(name), 25) + 70))

----------------------------------------------------------------------------
(* The upload flow: UploadArea, Index.handleFileSelect, performAIAnalysis *)

\* A media type 'major/minor' is the pair <<major, minor>>; the type of a file
\* the browser knows no type for is the empty string, <<"", "">>.
validTypes == {<<"image", "jpeg">>, <<"image", "png">>, <<"image", "webp">>}

maxSize == 10 * 1024 * 1024

FileTypes == validTypes \cup {<<"image", "gif">>, <<"video", "mp4">>, <<"", "">>}

FileSizes == {1024, maxSize, maxSize + 1}

\* 'img' and 'Fake'
FileNames == {<<105, 109, 103>>, <<70, 97, 107, 101>>}

\* The files a user can offer: a type, a size in bytes, the image the bytes
\* decode to, Null if they do not decode, and a name.
Files ==
  [type : FileTypes, size : FileSizes,
   image : {Null, Image(3, 3, Black, White, 1, {}, White)},
   name : FileNames]

\* A validation that forgets the size ceiling.
validateFileTypeOnly(f) ==
  IF f.type \notin validTypes
  THEN "Please upload a valid image file (JPEG, PNG, or WebP)"
  ELSE ""

validateFile(f) ==
  IF f.type \notin validTypes
  THEN "Please upload a valid image file (JPEG, PNG, or WebP)"
  ELSE IF f.size > maxSize
  THEN "File size must be less than 10MB"
  ELSE ""

\* file.type.startsWith('video/')
IsVideo(f) == f.type[1] = "video"

\* file.type.split('/')[1] is undefined, so that .toUpperCase() throws
NoSubtype(f) == f.type = <<"", "">>

\* The page before any call of generateAnalyticalViews.
InitUpload ==
  /\ pc = "idle"
  /\ img = Null
  /\ Fresh
  /\ Mounted
  /\ keyed \in BOOLEAN

handleGetStarted ==
  /\ currentStep = "landing"
  /\ currentStep' = "upload"
  /\ UNCHANGED <<isAnalyzing, analysisResult, selectedFile, error, dropped, analysis, file>>
  /\ UNCHANGED <<pc, img, canvas, imageData, outputData, views, resolved, calls>>
  /\ UNCHANGED <<inFlight, ai, mfe>>

\* The 'Back to Home' button, disabled while analyzing; the UploadArea is
\* unmounted and loses its state.
BackToHome ==
  /\ currentStep = "upload"
  /\ ~isAnalyzing
  /\ currentStep' = "landing"
  /\ error' = ""
  /\ dropped' = None
  /\ UNCHANGED <<isAnalyzing, analysisResult, selectedFile, analysis, file>>
  /\ UNCHANGED <<pc, img, canvas, imageData, outputData, views, resolved, calls>>
  /\ UNCHANGED <<inFlight, ai, mfe>>

\* Index.handleFileSelect(f) up to its first await: the call of
\* performAIAnalysis(f).
handleFileSelect(f) ==
  /\ selectedFile' = f
  /\ isAnalyzing' = TRUE
  /\ analysis' = "performAIAnalysis"
  /\ file' = f
  /\ inFlight' = inFlight + 1

\* The body handleDrop and handleFileInput share, on the file f of the event
\* (None if the event carries no file).
Offer(f) ==
  /\ dropped' = f
  /\ IF f = None
     THEN /\ error' = ""
          /\ UNCHANGED <<selectedFile, isAnalyzing, analysis, file, inFlight>>
     ELSE LET validationError == validateFile(f)
          IN IF validationError # ""
             THEN /\ error' = validationError
                  /\ UNCHANGED <<selectedFile, isAnalyzing, analysis, file, inFlight>>
             ELSE /\ error' = ""
                  /\ handleFileSelect(f)
  /\ UNCHANGED <<currentStep, analysisResult>>
  /\ UNCHANGED <<pc, img, canvas, imageData, outputData, views, resolved, calls>>
  /\ UNCHANGED <<ai, mfe>>

\* An upload area that takes events whether or not an analysis runs.
AcceptsEventsAlways(analyzing) == TRUE

\* The upload area takes no pointer events while analyzing (the class
\* pointer-events-none), its click handler tests !isAnalyzing and its file
\* input is disabled.
AcceptsEvents(analyzing) == ~analyzing

\* A drop on the upload area.
handleDrop ==
  /\ currentStep = "upload"
  /\ AcceptsEvents(isAnalyzing)
  /\ \E f \in Files \cup {None} : Offer(f)

\* A click on the upload area and the change of the file input that follows.
handleFileInput ==
  /\ currentStep = "upload"
  /\ AcceptsEvents(isAnalyzing)
  /\ \E f \in Files \cup {None} : Offer(f)

\* performAIAnalysis(file) up to its first await: it calls initializeModels.
\* The call has made no call of generateAnalyticalViews yet.
performAIAnalysis ==
  /\ analysis = "performAIAnalysis"
  /\ analysis' = "initializeModels"
  /\ init' = [init EXCEPT ![1] = "called"]
  /\ classifications' = <<>>
  /\ result' = None
  /\ viewCalls' = 0
  /\ thrown' = {}
  /\ pc' = "idle"
  /\ img' = Null
  /\ canvas' = Null
  /\ imageData' = Null
  /\ outputData' = [n \in ViewNames |-> Null]
  /\ views' = [n \in ViewNames |-> Null]
  /\ resolved' = Null
  /\ calls' = [n \in CallNames |-> 0]
  /\ UNCHANGED <<currentStep, isAnalyzing, analysisResult, selectedFile, error,
                 dropped, file, inFlight>>
  /\ UNCHANGED <<keyed, imageClassifier, objectDetector, created, mfe>>

\* What initializeModels does next once the classifier is settled: it creates
\* the detector if there is none, and returns true otherwise.
AfterClassifier(detector) == IF detector = 0 THEN "objectDetector" ELSE "true"

\* initializeModels up to its first await, for the call c of
\* performAIAnalysis: it creates the first model that is null.
initializeModels(c) ==
  /\ init[c] = "called"
  /\ init' = [init EXCEPT ![c] = IF imageClassifier = 0 THEN "imageClassifier"
                                 ELSE AfterClassifier(objectDetector)]
  /\ UNCHANGED <<imageClassifier, objectDetector, created>>

\* The pipeline initializeModels awaits for the classifier settles: with a
\* pipeline, which is assigned, or with an error, which the catch block turns
\* into false.
ClassifierPipeline(c) ==
  /\ init[c] = "imageClassifier"
  /\ \E ok \in BOOLEAN :
       IF ok
       THEN /\ created' = [created EXCEPT !["imageClassifier"] = @ + 1]
            /\ imageClassifier' = created'["imageClassifier"]
            /\ init' = [init EXCEPT ![c] = AfterClassifier(objectDetector)]
       ELSE /\ init' = [init EXCEPT ![c] = "false"]
            /\ UNCHANGED <<imageClassifier, created>>
  /\ UNCHANGED objectDetector

DetectorPipeline(c) ==
  /\ init[c] = "objectDetector"
  /\ \E ok \in BOOLEAN :
       IF ok
       THEN /\ created' = [created EXCEPT !["objectDetector"] = @ + 1]
            /\ objectDetector' = created'["objectDetector"]
            /\ init' = [init EXCEPT ![c] = "true"]
       ELSE /\ init' = [init EXCEPT ![c] = "false"]
            /\ UNCHANGED <<objectDetector, created>>
  /\ UNCHANGED imageClassifier

\* What a step of the page's analysis leaves alone: the page itself and the
\* frame extractor.
AnalysisFrame ==
  UNCHANGED <<currentStep, isAnalyzing, analysisResult, selectedFile, error,
              dropped, file, inFlight, keyed, mfe>>

\* The call of generateAnalyticalViews is left alone.
NoViewsCall ==
  UNCHANGED <<pc, img, canvas, imageData, outputData, views, resolved, calls>>

\* The steps of initializeModels for the call the page made.
InitializeModels ==
  /\ analysis = "initializeModels"
  /\ initializeModels(1) \/ ClassifierPipeline(1) \/ DetectorPipeline(1)
  /\ UNCHANGED <<analysis, classifications, result, viewCalls, thrown>>
  /\ AnalysisFrame
  /\ NoViewsCall

\* initializeModels has returned: performAIAnalysis goes on to classify, or
\* throws 'AI models failed to initialize'.
ModelsReady ==
  /\ analysis = "initializeModels"
  /\ init[1] \in {"true", "false"}
  /\ init' = [init EXCEPT ![1] = "idle"]
  /\ IF init[1] = "true"
     THEN analysis' = "imageClassifier" /\ UNCHANGED thrown
     ELSE analysis' = "catch" /\ thrown' = thrown \cup {"initializeModels"}
  /\ UNCHANGED <<imageClassifier, objectDetector, created, classifications,
                 result, viewCalls>>
  /\ AnalysisFrame
  /\ NoViewsCall

\* The entries a classifier output is made of.
Natural == Entry(TRUE, FALSE, 90)
Suspicious == Entry(FALSE, TRUE, 90)
Unrelated == Entry(FALSE, FALSE, 60)

\* await imageClassifier(imagePreview): a list of labels with scores for an
\* image that decodes, or an error.
Classify ==
  /\ analysis = "imageClassifier"
  /\ \/ /\ file.image # Null
        /\ classifications' \in {<<>>, <<Natural>>, <<Suspicious>>, <<Unrelated, Natural>>}
        /\ analysis' = "objectDetector"
        /\ UNCHANGED thrown
     \/ /\ analysis' = "catch"
        /\ thrown' = thrown \cup {"imageClassifier"}
        /\ UNCHANGED classifications
  /\ UNCHANGED <<imageClassifier, objectDetector, created, init, result, viewCalls>>
  /\ AnalysisFrame
  /\ NoViewsCall

\* Both blocks go on the same way once they have their score: they call
\* generateAnalyticalViews(file) if the image is judged suspicious and the
\* file is no video, and build the object they return otherwise. Building it
\* throws on a type without subtype; in the try block the catch block takes
\* over, in the catch block the promise of performAIAnalysis rejects.
Proceed(suspicious, inTry, errors) ==
  IF suspicious /\ ~IsVideo(file)
  THEN /\ analysis' = "generateAnalyticalViews"
       /\ viewCalls' = viewCalls + 1
       /\ thrown' = errors
       /\ pc' = "called"
       /\ img' = file.image
       /\ canvas' = Null
       /\ imageData' = Null
       /\ outputData' = [n \in ViewNames |-> Null]
       /\ views' = [n \in ViewNames |-> Null]
       /\ resolved' = Null
       /\ calls' = [n \in CallNames |-> 0]
  ELSE /\ analysis' = IF ~NoSubtype(file) THEN "returned"
                      ELSE IF inTry THEN "catch" ELSE "rejected"
       /\ thrown' = IF NoSubtype(file) THEN errors \cup {"format"} ELSE errors
       /\ UNCHANGED viewCalls
       /\ NoViewsCall

\* if (isFakeFile ...) in the filename-keyed version, if (authenticityScore <
\* 70 ...) and if (score < 70 ...) in aiAnalysis.ts
ViewsWanted(isFake, score) == IF keyed THEN isFake ELSE score < 70

\* await objectDetector(imagePreview) and the rest of the try block up to its
\* next await or its return. generateGradCAMRegions(classifications) of
\* aiAnalysis.ts reads classifications[0].score, which throws on an empty list.
Detect ==
  /\ analysis = "objectDetector"
  /\ \/ /\ analysis' = "catch"
        /\ thrown' = thrown \cup {"objectDetector"}
        /\ UNCHANGED <<result, viewCalls>>
        /\ NoViewsCall
     \/ /\ ~keyed /\ classifications = <<>>
        /\ analysis' = "catch"
        /\ thrown' = thrown \cup {"generateGradCAMRegions"}
        /\ UNCHANGED <<result, viewCalls>>
        /\ NoViewsCall
     \/ /\ keyed \/ classifications # <<>>
        /\ LET score == IF keyed
                        THEN Max(0, Min(100, MathRound(KeyedScore(file.name), 1)))
                        ELSE ModelScore(classifications)
           IN /\ result' = [score |-> score,
                            confidence |-> Min(95, ModelConfidence(classifications)),
                            extractedViews |-> Null,
                            modelUsed |-> "ResNet-50 + DETR (Hugging Face)"]
              /\ Proceed(ViewsWanted(IsFakeFile(file.name), score), TRUE, thrown)
  /\ UNCHANGED <<imageClassifier, objectDetector, created, init, classifications>>
  /\ AnalysisFrame

\* The catch block of performAIAnalysis up to its await or its return.
Fallback ==
  /\ analysis = "catch"
  /\ LET score == IF keyed THEN KeyedScore(file.name)
                  ELSE FallbackScore(file.name, file.size)
     IN /\ result' = [score |-> score,
                      confidence |-> FallbackConfidence(file.name),
                      extractedViews |-> Null,
                      modelUsed |-> "Fallback Analysis"]
        /\ Proceed(ViewsWanted(IsFakeFile(file.name), score), FALSE, thrown)
  /\ UNCHANGED <<imageClassifier, objectDetector, created, init, classifications>>
  /\ AnalysisFrame

\* A block without the inner try: a rejection of generateAnalyticalViews
\* leaves the block.
ViewsSettledUncaught ==
  /\ analysis = "generateAnalyticalViews"
  /\ pc \in {"done", "rejected"}
  /\ result' = [result EXCEPT !.extractedViews = IF pc = "done" THEN resolved ELSE Null]
  /\ LET inTry == result.modelUsed # "Fallback Analysis"
     IN /\ analysis' = IF pc = "done" /\ ~NoSubtype(file) THEN "returned"
                       ELSE IF inTry THEN "catch" ELSE "rejected"
        /\ thrown' = IF pc = "rejected" THEN thrown \cup {"generateAnalyticalViews"}
                     ELSE IF NoSubtype(file) THEN thrown \cup {"format"} ELSE thrown
  /\ pc' = "idle"
  /\ img' = Null
  /\ canvas' = Null
  /\ imageData' = Null
  /\ outputData' = [n \in ViewNames |-> Null]
  /\ views' = [n \in ViewNames |-> Null]
  /\ UNCHANGED <<resolved, calls>>
  /\ UNCHANGED <<imageClassifier, objectDetector, created, init, classifications,
                 viewCalls>>
  /\ AnalysisFrame

\* The promise of generateAnalyticalViews has settled: extractedViews is what
\* it resolved with, or stays undefined if it rejected, and the block builds
\* the object it returns. The call of generateAnalyticalViews is over and its
\* locals are gone; what it resolved with stays.
ViewsSettled ==
  /\ analysis = "generateAnalyticalViews"
  /\ pc \in {"done", "rejected"}
  /\ result' = [result EXCEPT !.extractedViews = IF pc = "done" THEN resolved ELSE Null]
  /\ LET inTry == result.modelUsed # "Fallback Analysis"
         errors == IF pc = "rejected" THEN thrown \cup {"generateAnalyticalViews"}
                   ELSE thrown
     IN /\ analysis' = IF ~NoSubtype(file) THEN "returned"
                       ELSE IF inTry THEN "catch" ELSE "rejected"
        /\ thrown' = IF NoSubtype(file) THEN errors \cup {"format"} ELSE errors
  /\ pc' = "idle"
  /\ img' = Null
  /\ canvas' = Null
  /\ imageData' = Null
  /\ outputData' = [n \in ViewNames |-> Null]
  /\ views' = [n \in ViewNames |-> Null]
  /\ UNCHANGED <<resolved, calls>>
  /\ UNCHANGED <<imageClassifier, objectDetector, created, init, classifications,
                 viewCalls>>
  /\ AnalysisFrame

\* The scores and confidences Math.random gives the mock result of the page.
MockScores == {0, 69, 70, 99}
MockConfidences == {70, 99}

\* The rest of handleFileSelect. If performAIAnalysis returned and the insert
\* into analysis_history did not throw, the result is shown; otherwise the
\* catch block shows a mock result. The finally block clears isAnalyzing. The
\* UploadArea is unmounted; the call of performAIAnalysis is over.
ShowResults ==
  /\ analysis \in {"returned", "rejected"}
  /\ \E inserted \in BOOLEAN, score \in MockScores, confidence \in MockConfidences :
       analysisResult' =
         IF analysis = "returned" /\ inserted
         THEN [mock |-> FALSE, score |-> result.score,
               confidence |-> result.confidence,
               extractedViews |-> result.extractedViews]
         ELSE [mock |-> TRUE, score |-> score, confidence |-> confidence,
               extractedViews |-> Null]
  /\ currentStep' = "results"
  /\ isAnalyzing' = FALSE
  /\ analysis' = "idle"
  /\ inFlight' = inFlight - 1
  /\ error' = ""
  /\ dropped' = None
  /\ classifications' = <<>>
  /\ result' = None
  /\ viewCalls' = 0
  /\ thrown' = {}
  /\ UNCHANGED <<selectedFile, file>>
  /\ UNCHANGED <<keyed, imageClassifier, objectDetector, created, init, mfe>>
  /\ NoViewsCall

\* A handler that clears the result and stays on the results step.
handleAnalyzeNewKeepsStep ==
  /\ currentStep = "results"
  /\ analysisResult # None
  /\ analysisResult' = None
  /\ selectedFile' = None
  /\ UNCHANGED <<currentStep, isAnalyzing, error, dropped, analysis, file>>
  /\ UNCHANGED <<inFlight, ai, mfe>>
  /\ NoViewsCall

handleAnalyzeNew ==
  /\ currentStep = "results"
  /\ analysisResult # None
  /\ currentStep' = "upload"
  /\ analysisResult' = None
  /\ selectedFile' = None
  /\ UNCHANGED <<isAnalyzing, error, dropped, analysis, file>>
  /\ UNCHANGED <<inFlight, ai, mfe>>
  /\ NoViewsCall

NextUpload ==
  \/ handleGetStarted
  \/ BackToHome
  \/ handleDrop
  \/ handleFileInput
  \/ performAIAnalysis
  \/ InitializeModels
  \/ ModelsReady
  \/ Classify
  \/ Detect
  \/ Fallback
  \/ GetContext
  \/ OnError
  \/ OnLoad
  \/ EdgeDetection
  \/ TextureAnalysis
  \/ LightingAnalysis
  \/ ColorDistribution
  \/ Resolve
  \/ ViewsSettled
  \/ ShowResults
  \/ handleAnalyzeNew

UploadSpec == InitUpload /\ [][NextUpload]_vars

\* The page with its scheduling: every promise of the models, the classifier
\* and the detector settles, the browser delivers the load or the error event
\* of an image, and code that can run does run. The user need not do anything.
FairUploadSpec ==
  /\ UploadSpec
  /\ WF_vars(performAIAnalysis)
  /\ WF_vars(InitializeModels)
  /\ WF_vars(ModelsReady)
  /\ WF_vars(Classify)
  /\ WF_vars(Detect)
  /\ WF_vars(Fallback)
  /\ WF_vars(GetContext)
  /\ WF_vars(OnError)
  /\ WF_vars(OnLoad)
  /\ WF_pc(FilterReturns)
  /\ WF_vars(Resolve)
  /\ WF_vars(ViewsSettled)
  /\ WF_vars(ShowResults)

----------------------------------------------------------------------------
(* performAIAnalysis called on any file, the models initialized or not *)

\* A call of performAIAnalysis(file) outside the page: the file may be a
\* video or have no type, and earlier calls may have created either model.
InitAnalysis ==
  /\ pc = "idle"
  /\ img = Null
  /\ Fresh
  /\ currentStep = "landing"
  /\ isAnalyzing = FALSE
  /\ analysisResult = None
  /\ selectedFile = None
  /\ error = ""
  /\ dropped = None
  /\ inFlight = 0
  /\ analysis = "performAIAnalysis"
  /\ file \in Files
  /\ keyed \in BOOLEAN
  /\ imageClassifier \in {0, 1}
  /\ objectDetector \in {0, 1}
  /\ created = [m \in ModelNames |->
                  IF m = "imageClassifier" THEN imageClassifier ELSE objectDetector]
  /\ init = [c \in Callers |-> "idle"]
  /\ classifications = <<>>
  /\ result = None
  /\ viewCalls = 0
  /\ thrown = {}
  /\ ExtractorMounted

NextAnalysis ==
  \/ performAIAnalysis
  \/ InitializeModels
  \/ ModelsReady
  \/ Classify
  \/ Detect
  \/ Fallback
  \/ GetContext
  \/ OnError
  \/ OnLoad
  \/ EdgeDetection
  \/ TextureAnalysis
  \/ LightingAnalysis
  \/ ColorDistribution
  \/ Resolve
  \/ ViewsSettled

AnalysisSpec == InitAnalysis /\ [][NextAnalysis]_vars

----------------------------------------------------------------------------
(* The scores of performAIAnalysis, on many names, sizes and classifier
   outputs *)

\* 'fake', 'Generated', 'AI', 'a', 'i', 'img.png' and '￿'
NameParts ==
  {StrFake, <<71, 101, 110, 101, 114, 97, 116, 101, 100>>, <<65, 73>>, <<97>>,
   <<105>>, <<105, 109, 103, 46, 112, 110, 103>>, <<65535>>}

\* The names of at most n parts, the empty name among them.
RECURSIVE Names(_)
Names(n) ==
  IF n = 0 THEN {<<>>}
  ELSE Names(n - 1) \cup {name \o part : name \in Names(n - 1), part \in NameParts}

\* Sizes in bytes: none, one and a half KB, 10 MB, 2 GB less one byte.
ScoreSizes == {0, 1536, maxSize, 2147483647}

ScoreEntries ==
  {Entry(TRUE, FALSE, 100), Entry(FALSE, TRUE, 100), Entry(FALSE, TRUE, 50),
   Entry(TRUE, TRUE, 60), Entry(FALSE, FALSE, 90)}

\* The classifier outputs of at most MaxLabels entries: some copies of one
\* entry followed by copies of another.
ScoreOutputs ==
  {[k \in 1 .. m |-> IF k <= j THEN first ELSE second] :
     first \in ScoreEntries, second \in ScoreEntries,
     m \in 0 .. MaxLabels, j \in 0 .. MaxLabels}

\* An output of an unrelated label and a natural one.
PlainOutput == <<Entry(FALSE, FALSE, 90), Entry(TRUE, FALSE, 100)>>

\* performAIAnalysis has its classifier output and awaits the detector: on
\* any name with one output, or on two names with any output.
InitScore ==
  /\ pc = "idle"
  /\ img = Null
  /\ Fresh
  /\ currentStep = "landing"
  /\ isAnalyzing = FALSE
  /\ analysisResult = None
  /\ selectedFile = None
  /\ error = ""
  /\ dropped = None
  /\ inFlight = 0
  /\ analysis = "objectDetector"
  /\ keyed \in BOOLEAN
  /\ \E name \in Names(MaxParts), size \in ScoreSizes, output \in ScoreOutputs :
       /\ name \in {<<>>, StrFake} \/ output = PlainOutput
       /\ file = [type |-> <<"image", "png">>, size |-> size,
                  image |-> Image(3, 3, Black, White, 1, {}, White), name |-> name]
       /\ classifications = output
  /\ imageClassifier = 1
  /\ objectDetector = 1
  /\ created = [m \in ModelNames |-> 1]
  /\ init = [c \in Callers |-> "idle"]
  /\ result = None
  /\ viewCalls = 0
  /\ thrown = {}
  /\ ExtractorMounted

NextScore ==
  \/ Detect
  \/ Fallback

ScoreSpec == InitScore /\ [][NextScore]_vars

----------------------------------------------------------------------------
(* initializeModels under calls of performAIAnalysis that overlap *)

\* The module as loaded, with no analysis made yet.
InitModels ==
  /\ pc = "idle"
  /\ img = Null
  /\ Fresh
  /\ Mounted
  /\ keyed \in BOOLEAN

\* The models and the calls of initializeModels change, nothing else does.
ModelsFrame ==
  /\ UNCHANGED <<currentStep, isAnalyzing, analysisResult, selectedFile, error,
                 dropped, analysis, file, inFlight>>
  /\ UNCHANGED <<keyed, classifications, result, viewCalls, thrown, mfe>>
  /\ NoViewsCall

\* A caller of the exported performAIAnalysis reaches
\* await initializeModels(), whatever other calls are in flight.
CallInitializeModels(c) ==
  /\ init[c] = "idle"
  /\ init' = [init EXCEPT ![c] = "called"]
  /\ UNCHANGED <<imageClassifier, objectDetector, created>>

\* initializeModels has returned to its caller, which classifies or throws.
ReturnModelsReady(c) ==
  /\ init[c] \in {"true", "false"}
  /\ init' = [init EXCEPT ![c] = "idle"]
  /\ UNCHANGED <<imageClassifier, objectDetector, created>>

NextModels ==
  \E c \in Callers :
    /\ \/ CallInitializeModels(c)
       \/ initializeModels(c)
       \/ ClassifierPipeline(c)
       \/ DetectorPipeline(c)
       \/ ReturnModelsReady(c)
    /\ ModelsFrame

ModelsSpec == InitModels /\ [][NextModels]_vars

----------------------------------------------------------------------------
(* MediaFrameExtractor on a video: 'Extract Current Frame' *)

\* The most frames a list holds, and the most clicks that wait.
MaxFrames == 3

\* The longest video, in seconds.
MaxTime == 2

\* The extractor mounted on a video whose metadata has not loaded.
InitFrames ==
  /\ pc = "idle"
  /\ img = Null
  /\ Fresh
  /\ Mounted
  /\ keyed = FALSE

\* The extractor changes, the page and the analysis do not.
FramesFrame ==
  /\ UNCHANGED <<currentStep, isAnalyzing, analysisResult, selectedFile, error,
                 dropped, analysis, file, inFlight, ai>>
  /\ NoViewsCall

\* setDuration(videoRef.current.duration)
handleLoadedMetadata ==
  /\ duration = 0
  /\ duration' \in 1 .. MaxTime
  /\ UNCHANGED <<extractedFrames, reported, pending, obtained, currentTime>>
  /\ FramesFrame

\* The slider, whose range is 0 to duration: the video seeks to time, and
\* currentTime follows.
seekTo(time) ==
  /\ duration # 0
  /\ currentTime # time
  /\ currentTime' = time
  /\ UNCHANGED <<extractedFrames, reported, pending, obtained, duration>>
  /\ FramesFrame

\* canvas.toDataURL('image/jpeg', 0.8) of the video frame at a position.
dataUrl(position) == <<"image/jpeg", position>>

\* A click on 'Extract Current Frame', enabled once the duration is known:
\* extractFrameAtTime registers handleSeeked and seeks, and the call awaits
\* with the extractedFrames and the currentTime of the render it closed over.
extractCurrentFrame ==
  /\ duration # 0
  /\ Len(pending) + Max(Len(extractedFrames), Len(obtained)) < MaxFrames
  /\ pending' = Append(pending, [extractedFrames |-> extractedFrames,
                                 currentTime |-> currentTime])
  /\ UNCHANGED <<extractedFrames, reported, obtained, duration, currentTime>>
  /\ FramesFrame

\* What the call that waits as pending[k] appends once its data URL is there.
newFrame(k) ==
  [timestamp |-> pending[k].currentTime, dataUrl |-> dataUrl(currentTime)]

\* [...extractedFrames, newFrame] in the call that waits as pending[k]
updatedFrames(k) == Append(pending[k].extractedFrames, newFrame(k))

\* The video fires 'seeked': every handleSeeked registered runs, in the order
\* of registration, and resolves its promise; each call of extractCurrentFrame
\* then sets and reports its updatedFrames. The last one set is what the next
\* render shows.
Seeked ==
  /\ pending # <<>>
  /\ extractedFrames' = updatedFrames(Len(pending))
  /\ reported' = updatedFrames(Len(pending))
  /\ obtained' = obtained \o [k \in 1 .. Len(pending) |-> newFrame(k)]
  /\ pending' = <<>>
  /\ UNCHANGED <<duration, currentTime>>
  /\ FramesFrame

\* setExtractedFrames([]); onFrameAnalysis([])
clearFrames ==
  /\ extractedFrames # <<>>
  /\ extractedFrames' = <<>>
  /\ reported' = <<>>
  /\ obtained' = <<>>
  /\ UNCHANGED <<pending, duration, currentTime>>
  /\ FramesFrame

NextFrames ==
  \/ handleLoadedMetadata
  \/ \E time \in 0 .. duration : seekTo(time)
  \/ extractCurrentFrame
  \/ Seeked
  \/ clearFrames

FramesSpec == InitFrames /\ [][NextFrames]_vars

----------------------------------------------------------------------------
(* Properties *)

Ran(n) == outputData[n] # Null

Zero == <<0, 0, 0, 0>>

\* The width of the border ring the loops of filter n leave out.
Ring(n) ==
  CASE n = "edgeDetection" -> 1
    [] n = "lightingAnalysis" -> 1
    [] n = "textureAnalysis" -> 2
    [] n = "colorDistribution" -> 0

Xs(raster) == 0 .. (raster.width - 1)
Ys(raster) == 0 .. (raster.height - 1)

InRing(raster, k, x, y) ==
  x < k \/ x >= raster.width - k \/ y < k \/ y >= raster.height - k

\* C1: every filter's output raster has the width and the height of the decoded
\* input buffer, and holds exactly width * height pixels of four samples each.
DimensionsPreserved ==
  \A n \in ViewNames :
    Ran(n) =>
      /\ imageData.width >= 1 /\ imageData.height >= 1
      /\ outputData[n].width = imageData.width
      /\ outputData[n].height = imageData.height
      /\ DOMAIN outputData[n].data = 0 .. (imageData.width * imageData.height - 1)
      /\ \A p \in DOMAIN outputData[n].data : Len(outputData[n].data[p]) = 4

DimensionsWitness ==
  /\ \A n \in ViewNames : Ran(n)
  /\ imageData.width = 2
  /\ imageData.height = MaxH

\* C2: at every interior pixel the Edge output is (m, m, m, 255), m being the
\* Sobel gradient magnitude of the red channel, clamped to 255 and rounded to
\* the nearest integer.
EdgeIsSobelMagnitude ==
  Ran("edgeDetection") =>
    \A x \in Xs(imageData), y \in Ys(imageData) :
      ~InRing(imageData, 1, x, y) =>
        LET R(i, j) == PixelAt(imageData, i, j)[1]
            gx == (R(x + 1, y - 1) - R(x - 1, y - 1))
                  + 2 * (R(x + 1, y) - R(x - 1, y))
                  + (R(x + 1, y + 1) - R(x - 1, y + 1))
            gy == (R(x - 1, y - 1) + 2 * R(x, y - 1) + R(x + 1, y - 1))
                  - (R(x - 1, y + 1) + 2 * R(x, y + 1) + R(x + 1, y + 1))
            sq == gx * gx + gy * gy
            out == PixelAt(outputData["edgeDetection"], x, y)
            m == out[1]
        IN /\ out = <<m, m, m, 255>>
           /\ m \in 0 .. 255
           /\ IF sq >= 255 * 255 THEN m = 255
              ELSE /\ (2 * m - 1) * (2 * m - 1) <= 4 * sq \/ m = 0
                   /\ 4 * sq <= (2 * m + 1) * (2 * m + 1)

\* An interior pixel with a gradient in both directions, below the clamp.
EdgeWitness ==
  /\ Ran("edgeDetection")
  /\ \E x \in Xs(imageData), y \in Ys(imageData) :
       /\ ~InRing(imageData, 1, x, y)
       /\ SobelGx(imageData.data, imageData.width, x, y) # 0
       /\ SobelGy(imageData.data, imageData.width, x, y) # 0
       /\ PixelAt(outputData["edgeDetection"], x, y)[1] \in 1 .. 254

\* C3: in the Edge, Texture and Lighting outputs every pixel of the border ring
\* (width 1, 2 and 1) is (0, 0, 0, 0).
BorderRingIsZero ==
  \A n \in ViewNames \ {"colorDistribution"} :
    Ran(n) =>
      \A x \in Xs(outputData[n]), y \in Ys(outputData[n]) :
        InRing(outputData[n], Ring(n), x, y) => PixelAt(outputData[n], x, y) = Zero

\* The three filters have run on an image with no black pixel and with pixels
\* inside each ring.
BorderRingWitness ==
  /\ \A n \in ViewNames : Ran(n)
  /\ imageData.width >= windowSize /\ imageData.height >= windowSize
  /\ \A p \in DOMAIN imageData.data : imageData.data[p] = White
  /\ PixelAt(outputData["lightingAnalysis"], 1, 1) # Zero

\* C4, as claimed: every pixel of every output raster has alpha 255.
AlphaAlwaysOpaque ==
  \A n \in ViewNames :
    Ran(n) => \A p \in DOMAIN outputData[n].data : outputData[n].data[p][4] = 255

\* C4, amended: every pixel of an output raster outside the filter's border
\* ring (width 1 for Edge and Lighting, 2 for Texture, none for Color) has
\* alpha 255.
AlphaOpaqueInsideRing ==
  \A n \in ViewNames :
    Ran(n) =>
      \A x \in Xs(outputData[n]), y \in Ys(outputData[n]) :
        ~InRing(outputData[n], Ring(n), x, y) => PixelAt(outputData[n], x, y)[4] = 255

AlphaWitness ==
  /\ \A n \in ViewNames : Ran(n)
  /\ \A n \in ViewNames :
       \E x \in Xs(outputData[n]), y \in Ys(outputData[n]) :
         ~InRing(outputData[n], Ring(n), x, y)

\* C5: the Color filter writes every pixel, the border ring included, so none
\* of its output is left at the zero default, where the other three filters
\* leave their border ring.
ColorWritesEveryPixel ==
  Ran("colorDistribution") =>
    /\ \A p \in DOMAIN outputData["colorDistribution"].data :
         /\ outputData["colorDistribution"].data[p] # Zero
         /\ outputData["colorDistribution"].data[p][4] = 255
    /\ \A n \in ViewNames \ {"colorDistribution"} :
         \A x \in Xs(imageData), y \in Ys(imageData) :
           InRing(imageData, Ring(n), x, y) =>
             /\ PixelAt(outputData[n], x, y) = Zero
             /\ PixelAt(outputData["colorDistribution"], x, y) # Zero

ColorBorderWitness ==
  /\ Ran("colorDistribution")
  /\ imageData.width >= 3 /\ imageData.height >= 3
  /\ PixelAt(outputData["edgeDetection"], 1, 1)[4] = 255
  /\ PixelAt(outputData["colorDistribution"], 0, 0)[4] = 255

\* v is an 8-bit sample and a nearest integer to num / den (den > 0).
Near(v, num, den) == v \in 0 .. 255 /\ 2 * Abs(v * den - num) <= den

\* v is an 8-bit sample and a nearest integer to (a / b) * sqrt(n), for
\* n < 2^27: b * (2v - 1) <= 2 * a * sqrt(n) <= b * (2v + 1), squared and
\* divided by 4 * a * a.
NearSqrt(v, a, b, n) ==
  LET c == 4 * a * a
      d == b * b
      lo == (2 * v - 1) * (2 * v - 1)
      hi == (2 * v + 1) * (2 * v + 1)
  IN /\ v \in 0 .. 255
     /\ v = 0 \/ (d \div c) * lo + (((d % c) * lo + c - 1) \div c) <= n
     /\ n <= (d \div c) * hi + (((d % c) * hi) \div c)

\* C6: every pixel of the Color output is (0.3R + 0.7A, 0.3G + 0.5A,
\* 0.3B + 0.3A, 255) rounded to 8-bit samples, where A is 255 if the
\* saturation exceeds 0.8 or the colour uniformity exceeds 0.9, and
\* saturation * 255 otherwise.
ColorIsArtificialnessBlend ==
  Ran("colorDistribution") =>
    \A x \in Xs(imageData), y \in Ys(imageData) :
      LET in == PixelAt(imageData, x, y)
          max == Max3(in[1], in[2], in[3])
          min == Min3(in[1], in[2], in[3])
          \* 255 * colorUniformity
          uniformity255 == 255 - Abs(in[1] - in[2]) - Abs(in[2] - in[3]) - Abs(in[1] - in[3])
          flagged == (max # 0 /\ 10 * (max - min) > 8 * max) \/ 10 * uniformity255 > 9 * 255
          \* artificialness = an / ad
          an == IF flagged THEN 255 ELSE IF max = 0 THEN 0 ELSE (max - min) * 255
          ad == IF flagged \/ max = 0 THEN 1 ELSE max
          out == PixelAt(outputData["colorDistribution"], x, y)
      IN /\ Near(out[1], 3 * in[1] * ad + 7 * an, 10 * ad)
         /\ Near(out[2], 3 * in[2] * ad + 5 * an, 10 * ad)
         /\ Near(out[3], 3 * in[3] * ad + 3 * an, 10 * ad)
         /\ out[4] = 255

\* The Color filter has run on an image with a pixel neither saturated nor
\* uniform, a saturated one and a uniform one.
ColorBlendWitness ==
  /\ Ran("colorDistribution")
  /\ \E p \in DOMAIN imageData.data : imageData.data[p] = Tan
  /\ \E p \in DOMAIN imageData.data : imageData.data[p] \in {Red, Gray}

\* C7: for a gray input pixel (R = G = B) the colour uniformity is 1 and the
\* artificialness 255, whatever the saturation; the Color output is the blend
\* of the pixel with 255.
GrayIsArtificial ==
  Ran("colorDistribution") =>
    \A x \in Xs(imageData), y \in Ys(imageData) :
      LET in == PixelAt(imageData, x, y)
          v == in[1]
          uniformity == ColorUniformity(v, v, v)
          out == PixelAt(outputData["colorDistribution"], x, y)
      IN (in[2] = v /\ in[3] = v) =>
           /\ uniformity[1] = uniformity[2]
           /\ Artificialness(v, v, v) = <<255, 1>>
           /\ Near(out[1], 3 * v + 7 * 255, 10)
           /\ Near(out[2], 3 * v + 5 * 255, 10)
           /\ Near(out[3], 3 * v + 3 * 255, 10)

\* The Color filter has run on an image with a black and a mid-gray pixel.
GrayWitness ==
  /\ Ran("colorDistribution")
  /\ \E p \in DOMAIN imageData.data : imageData.data[p] = Black
  /\ \E p \in DOMAIN imageData.data : imageData.data[p] = Gray

\* The offsets of the 5 x 5 window.
WindowOffsets == ((-2) .. 2) \X ((-2) .. 2)

\* R + G + B of the pixel at offset d from (x, y): 3 * gray.
RGBSum(x, y, d) ==
  LET q == PixelAt(imageData, x + d[1], y + d[2]) IN q[1] + q[2] + q[3]

\* 25 * (sum of s^2) - (sum of s)^2 over the window, s = R + G + B:
\* 9 * 625 times the variance of gray.
WindowSpread(x, y) ==
  LET s == [d \in WindowOffsets |-> RGBSum(x, y, d)]
      sq == [d \in WindowOffsets |-> s[d] * s[d]]
      sum == SumOver(s, WindowOffsets)
  IN 25 * SumOver(sq, WindowOffsets) - sum * sum

\* C8: at every pixel whose 5 x 5 window lies inside the image the Texture
\* output is (t, 0.8t, 0.6t, 255) rounded to 8-bit samples, with
\* t = min(255, 3 * sqrt(variance of gray over the window)).
TextureIsLocalDeviation ==
  Ran("textureAnalysis") =>
    \A x \in Xs(imageData), y \in Ys(imageData) :
      ~InRing(imageData, 2, x, y) =>
        LET n == WindowSpread(x, y)
            out == PixelAt(outputData["textureAnalysis"], x, y)
        IN \* 3 * sqrt(variance) = sqrt(n) / 25
           IF n >= (255 * 25) * (255 * 25)
           THEN out = <<255, 204, 153, 255>>
           ELSE /\ NearSqrt(out[1], 1, 25, n)
                /\ NearSqrt(out[2], 4, 125, n)
                /\ NearSqrt(out[3], 3, 125, n)
                /\ out[4] = 255

\* A pixel with a full window of positive variance below the clamp.
TextureWitness ==
  /\ Ran("textureAnalysis")
  /\ \E x \in Xs(imageData), y \in Ys(imageData) :
       /\ ~InRing(imageData, 2, x, y)
       /\ PixelAt(outputData["textureAnalysis"], x, y)[1] \in 1 .. 254
       /\ PixelAt(outputData["textureAnalysis"], x, y)[3] \in 1 .. 152

\* C9: where the 25 samples of a pixel's window have the same gray
\* (R + G + B) / 3, the Texture output is (0, 0, 0, 255).
FlatWindowIsBlack ==
  Ran("textureAnalysis") =>
    \A x \in Xs(imageData), y \in Ys(imageData) :
      (/\ ~InRing(imageData, 2, x, y)
       /\ \A d \in WindowOffsets : RGBSum(x, y, d) = RGBSum(x, y, <<0, 0>>))
      => PixelAt(outputData["textureAnalysis"], x, y) = <<0, 0, 0, 255>>

\* A flat window of positive gray that holds two different colours.
FlatWindowWitness ==
  /\ Ran("textureAnalysis")
  /\ \E x \in Xs(imageData), y \in Ys(imageData) :
       /\ ~InRing(imageData, 2, x, y)
       /\ \A d \in WindowOffsets : RGBSum(x, y, d) = 255
       /\ \E d \in WindowOffsets : PixelAt(imageData, x + d[1], y + d[2]) = Red
       /\ \E d \in WindowOffsets : PixelAt(imageData, x + d[1], y + d[2]) = Gray
       /\ PixelAt(outputData["textureAnalysis"], x, y) = <<0, 0, 0, 255>>

\* 1000 * luminance of the input pixel (x, y).
Luma(x, y) ==
  LET q == PixelAt(imageData, x, y) IN 299 * q[1] + 587 * q[2] + 114 * q[3]

\* C10: at every interior pixel the Lighting output is (0.5L + 0.5e, e, 0.3L,
\* 255) rounded to 8-bit samples, with L the luminance of the pixel and
\* e = min(255, 2 * sqrt(h^2 + v^2)), h and v the luminance differences of its
\* horizontal and vertical neighbours.
LightingIsGradientBlend ==
  Ran("lightingAnalysis") =>
    \A x \in Xs(imageData), y \in Ys(imageData) :
      ~InRing(imageData, 1, x, y) =>
        LET L == Luma(x, y)
            h == Abs(Luma(x + 1, y) - Luma(x - 1, y))
            v == Abs(Luma(x, y + 1) - Luma(x, y - 1))
            out == PixelAt(outputData["lightingAnalysis"], x, y)
            \* 2 * sqrt(h^2 + v^2) / 1000 against out[1] - L / 2000 -+ 1/2
            below == 2000 * out[1] - 1000 - L
            above == 2000 * out[1] + 1000 - L
        IN /\ IF SumSqCmp(h, v, 127500) >= 0
              THEN /\ out[2] = 255
                   /\ Near(out[1], L + 255000, 2000)
              ELSE /\ out[2] \in 0 .. 255
                   /\ out[2] = 0 \/ SumSqCmp(h, v, 500 * out[2] - 250) >= 0
                   /\ SumSqCmp(h, v, 500 * out[2] + 250) <= 0
                   /\ out[1] \in 0 .. 255
                   /\ below <= 0 \/ SumSqCmp(2 * h, 2 * v, below) >= 0
                   /\ above >= 0 /\ SumSqCmp(2 * h, 2 * v, above) <= 0
           /\ Near(out[3], 3 * L, 10000)
           /\ out[4] = 255

\* An interior pixel with a luminance gradient in both directions, below the
\* clamp.
LightingWitness ==
  /\ Ran("lightingAnalysis")
  /\ \E x \in Xs(imageData), y \in Ys(imageData) :
       /\ ~InRing(imageData, 1, x, y)
       /\ Luma(x + 1, y) # Luma(x - 1, y)
       /\ Luma(x, y + 1) # Luma(x, y - 1)
       /\ PixelAt(outputData["lightingAnalysis"], x, y)[2] \in 1 .. 254
       /\ Luma(x, y) > 0

\* C11: where every pixel of the input has the same colour, every interior
\* pixel of the Edge output is (0, 0, 0, 255).
ConstantImageHasNoEdge ==
  (/\ Ran("edgeDetection")
   /\ \A p \in DOMAIN imageData.data : imageData.data[p] = imageData.data[0])
  => \A x \in Xs(imageData), y \in Ys(imageData) :
       ~InRing(imageData, 1, x, y)
         => PixelAt(outputData["edgeDetection"], x, y) = <<0, 0, 0, 255>>

\* The Edge filter has run on an image of one colour other than black that has
\* interior pixels.
ConstantImageWitness ==
  /\ Ran("edgeDetection")
  /\ imageData.width >= 3 /\ imageData.height >= 3
  /\ \A p \in DOMAIN imageData.data : imageData.data[p] = Tan
  /\ PixelAt(outputData["edgeDetection"], 1, 1) = <<0, 0, 0, 255>>

\* C12: on the 4 x 4 image whose columns 0 and 1 are black and whose columns 2
\* and 3 are white, the Edge output at the four interior pixels (x and y in
\* 1 .. 2) is a gray above 200.
SeamIsStrongEdge ==
  (/\ Ran("edgeDetection")
   /\ imageData.width = 4 /\ imageData.height = 4
   /\ \A x \in 0 .. 3, y \in 0 .. 3 :
        LET in == PixelAt(imageData, x, y)
        IN <<in[1], in[2], in[3]>> = IF x < 2 THEN <<0, 0, 0>> ELSE <<255, 255, 255>>)
  => \A x \in 1 .. 2, y \in 1 .. 2 :
       LET out == PixelAt(outputData["edgeDetection"], x, y)
       IN out[1] > 200 /\ out[2] = out[1] /\ out[3] = out[1]

\* The Edge filter has run on the 4 x 4 black and white image.
SeamWitness ==
  /\ Ran("edgeDetection")
  /\ imageData.width = 4 /\ imageData.height = 4
  /\ \A x \in 0 .. 3, y \in 0 .. 3 :
       PixelAt(imageData, x, y) = IF x < 2 THEN Black ELSE White
  /\ PixelAt(outputData["edgeDetection"], 2, 1)[1] > 200

\* The raster the data URL decodes to when the raster out is put on a cleared
\* canvas of the size of the input.
Alone(out) ==
  toDataURL(putImageData(SetCanvasSize(imageData.width, imageData.height), out))

\* C13: calling a filter again on the unchanged input buffer yields the same
\* output raster and the same encoded image as the call before, whatever ran
\* in between.
RerunIsIdentical ==
  [][\A n \in ViewNames :
       Ran(n) => outputData'[n] = outputData[n] /\ views'[n] = views[n]]_vars

\* Every filter has run twice on an image of two colours.
RerunWitness ==
  /\ \A n \in ViewNames : calls[n] = 2
  /\ PixelAt(imageData, 0, 0) = Tan
  /\ PixelAt(imageData, MaxW - 1, 0) = Red
  /\ getImageData(canvas) = outputData["textureAnalysis"]

\* C14: once decoded, the input buffer holds the samples getImageData returned
\* whatever filters have run since, so every filter reads the same pixels.
InputNeverWritten ==
  pc # "loading" =>
    imageData = getImageData(drawImage(SetCanvasSize(img.width, img.height), img))

\* All four filters have run on an image they map to something else.
InputWitness ==
  /\ \A n \in ViewNames : Ran(n)
  /\ imageData.width >= 3 /\ imageData.height >= 3
  /\ \A n \in ViewNames : outputData[n] # imageData

\* C15: whatever the order of the filter calls, the encoded image of each
\* filter is the one it yields alone on a cleared canvas: exactly its own
\* output raster, with nothing left by the image or by an earlier filter; and
\* the views the call resolves with are these four.
OrderIndependent ==
  /\ \A n \in ViewNames :
       views[n] # Null =>
         LET out == FilterOf(n, imageData)
         IN views[n] = Alone(out) /\ views[n] = out
  /\ resolved # Null => \A n \in ViewNames : resolved[n] # Null /\ resolved[n] = views[n]

\* The call has resolved after each filter ran once, Edge last and Color,
\* last in the views literal, before it.
OrderWitness ==
  /\ resolved # Null
  /\ \A n \in ViewNames : calls[n] = 1
  /\ getImageData(canvas) = outputData["edgeDetection"]
  /\ PixelAt(imageData, 0, 0) = White
  /\ PixelAt(outputData["colorDistribution"], 0, 0) # Zero
  /\ PixelAt(views["edgeDetection"], 0, 0) = Zero

\* C16: for a file that decodes, the call reads the canvas once, before any
\* filter runs, hands that buffer to the four filters, each called once, and
\* resolves once, with the four keys of the views literal, each holding the
\* encoded output of the filter of its name.
DecodesOnceResolvesOnce ==
  /\ [](\A n \in CallNames : calls[n] <= 1)
  /\ [](\A n \in ViewNames :
          Ran(n) =>
            /\ calls["getImageData"] = 1
            /\ imageData = getImageData(drawImage(SetCanvasSize(img.width, img.height), img)))
  /\ [](resolved # Null =>
          /\ calls["resolve"] = 1
          /\ DOMAIN resolved = ViewNames
          /\ \A n \in ViewNames :
               calls[n] = 1 /\ resolved[n] = Alone(FilterOf(n, imageData)))
  /\ ((pc = "loading" /\ img # Null) ~> (resolved # Null /\ pc = "done"))

\* The call has resolved with four views that differ from one another.
ResolveWitness ==
  /\ pc = "done"
  /\ resolved # Null
  /\ calls = [n \in CallNames |-> 1]
  /\ \A n \in ViewNames, m \in ViewNames : n # m => resolved[n] # resolved[m]

\* C17, as claimed: on a file that does not decode the call never returns
\* views and its promise comes to reject.
DecodeFailureRejects ==
  /\ [](img = Null => resolved = Null)
  /\ ((pc = "loading" /\ img = Null) ~> (pc = "rejected"))

\* The error event of a file that does not decode has fired and the promise is
\* neither resolved nor rejected.
DecodeFailureWitness ==
  /\ img = Null
  /\ pc = "failed"
  /\ resolved = Null

\* C18: on an image narrower or lower than twice the border ring of a filter
\* (2 for Edge and Lighting, 4 for Texture) the filter returns a raster of the
\* size of the input in which every pixel is (0, 0, 0, 0).
DegenerateIsAllZero ==
  \A n \in ViewNames \ {"colorDistribution"} :
    (Ran(n) /\ (imageData.width < 2 * Ring(n) \/ imageData.height < 2 * Ring(n)))
    => /\ outputData[n].width = imageData.width
       /\ outputData[n].height = imageData.height
       /\ DOMAIN outputData[n].data = DOMAIN imageData.data
       /\ \A p \in DOMAIN outputData[n].data : outputData[n].data[p] = Zero

\* The filters have run on a white image one pixel wide, and on it the Color
\* output is not zero.
DegenerateWitness ==
  /\ \A n \in ViewNames : Ran(n)
  /\ imageData.width = 1 /\ imageData.height = MaxH
  /\ \A p \in DOMAIN imageData.data : imageData.data[p] = White
  /\ \A p \in DOMAIN imageData.data : outputData["colorDistribution"].data[p][4] = 255

\* The raster with the red samples of raster and every other sample 0.
RedOnly(raster) ==
  [raster EXCEPT !.data = [p \in DOMAIN raster.data |-> <<raster.data[p][1], 0, 0, 0>>]]

\* C20: the Edge output is the one the filter gives on the buffer that keeps
\* the red samples alone, so two buffers of one size with the same red samples
\* have the same Edge output whatever their green, blue and alpha samples.
EdgeReadsRedOnly ==
  Ran("edgeDetection") =>
    outputData["edgeDetection"] = generateEdgeDetection(RedOnly(imageData))

\* The Edge filter has run on an image whose halves, white and half-transparent
\* red, differ in green, blue and alpha only: it finds no edge at the seam,
\* where the Lighting filter finds one.
RedOnlyWitness ==
  /\ Ran("lightingAnalysis")
  /\ imageData.width = 4 /\ imageData.height >= 3
  /\ \A x \in 0 .. 3, y \in Ys(imageData) :
       PixelAt(imageData, x, y) = IF x < 2 THEN White ELSE Red
  /\ PixelAt(outputData["edgeDetection"], 1, 1) = <<0, 0, 0, 255>>
  /\ PixelAt(outputData["lightingAnalysis"], 1, 1)[2] > 0

\* A file of one of the three image types, of at most 10 MB.
Validated(f) ==
  /\ f.type \in {<<"image", "jpeg">>, <<"image", "png">>, <<"image", "webp">>}
  /\ f.size <= 10 * 1024 * 1024

\* C19: generateAnalyticalViews and its filters only ever run on a file of type
\* image/jpeg, image/png or image/webp and of at most 10 MB; a file offered by
\* drop or by file input that fails either check sets the error message and
\* does not reach onFileSelect.
UploadIsValidated ==
  /\ (pc # "idle" \/ \E n \in ViewNames : Ran(n)) =>
       /\ analysis = "generateAnalyticalViews"
       /\ file # None /\ Validated(file) /\ img = file.image
  /\ analysis # "idle" => file = selectedFile /\ Validated(file)
  /\ selectedFile # None => Validated(selectedFile)
  /\ (dropped # None /\ ~Validated(dropped)) =>
       /\ error # ""
       /\ selectedFile # dropped
       /\ analysis = "idle" /\ ~isAnalyzing
  /\ (dropped # None /\ Validated(dropped)) =>
       error = "" /\ selectedFile = dropped /\ isAnalyzing

\* After the filters ran on a file of exactly 10 MB, a file of one byte more
\* has been refused.
UploadWitness ==
  /\ resolved # Null
  /\ file # None
  /\ file.size = maxSize
  /\ currentStep = "upload"
  /\ dropped # None
  /\ dropped.type \in validTypes
  /\ dropped.size = maxSize + 1
  /\ error = "File size must be less than 10MB"
  /\ selectedFile = None

\* The lower-cased name contains 'fake', 'generated' or 'ai'.
Flagged(name) ==
  \E sub \in {StrFake, StrGenerated, StrAi} : includes(toLowerCase(name), sub)

\* C21: performAIAnalysis never rejects for a file whose type has the form
\* 'x/y'; a result returned after model initialization, classification or
\* detection failed is the fallback result (modelUsed = 'Fallback Analysis');
\* a result returned after generateAnalyticalViews threw has extractedViews
\* undefined.
NeverRejectsTyped ==
  /\ file.type # <<"", "">> => analysis # "rejected"
  /\ (/\ analysis = "returned"
      /\ thrown \cap {"initializeModels", "imageClassifier", "objectDetector"} # {}) =>
       result.modelUsed = "Fallback Analysis"
  /\ (analysis = "returned" /\ "generateAnalyticalViews" \in thrown) =>
       result.extractedViews = Null

\* The classifier threw, the catch block asked for the views of a flagged
\* file, generateAnalyticalViews threw too, and the fallback result was
\* returned without views.
NeverRejectsWitness ==
  /\ analysis = "returned"
  /\ thrown = {"imageClassifier", "generateAnalyticalViews"}
  /\ result.modelUsed = "Fallback Analysis"
  /\ result.extractedViews = Null
  /\ viewCalls = 1

KeyedScoreFollowsName ==
  (keyed /\ result # None) =>
    /\ Flagged(file.name) => result.score \in 15 .. 45
    /\ ~Flagged(file.name) => result.score \in 75 .. 95
    /\ result.score < 70 <=> Flagged(file.name)

\* The catch block scored a name flagged only once it is lower-cased, of more
\* than seven characters and with a negative hash beyond 32 bits.
KeyedScoreWitness ==
  /\ keyed
  /\ result # None
  /\ result.modelUsed = "Fallback Analysis"
  /\ Flagged(file.name)
  /\ ~includes(file.name, StrFake) /\ ~includes(file.name, StrAi)
  /\ Len(file.name) > 7
  /\ fileNameHash(file.name)[1] < -32768
  /\ result.score \in 15 .. 45

AnalysisCompletes ==
  isAnalyzing ~> (~isAnalyzing /\ currentStep = "results" /\ analysisResult # None)

\* The page waits on a call of generateAnalyticalViews whose image failed to
\* decode.
AnalysisHangsWitness ==
  /\ isAnalyzing
  /\ currentStep = "upload"
  /\ analysis = "generateAnalyticalViews"
  /\ pc = "failed"
  /\ file.image = Null
  /\ Validated(file)

\* C26: in every reachable state of the Index page, currentStep = 'results'
\* implies that analysisResult is not null, so the page never renders nothing.
ResultsHaveResult == currentStep = "results" => analysisResult # None

\* The results step shows the mock result of the catch block of
\* handleFileSelect, after an analysis that ran the filters.
ResultsWitness ==
  /\ currentStep = "results"
  /\ analysisResult # None
  /\ analysisResult.mock
  /\ resolved # Null
  /\ ~isAnalyzing

\* C27: at most one analysis is in flight at any time, and one is in flight
\* exactly while isAnalyzing is true: no drop, click or file input change
\* starts a second handleFileSelect.
OneAnalysisInFlight ==
  /\ inFlight <= 1
  /\ isAnalyzing <=> inFlight = 1
  /\ analysis # "idle" <=> inFlight = 1

\* The analysis the drop of a valid file started is running the filters, and
\* the upload area still shows.
OneAnalysisWitness ==
  /\ currentStep = "upload"
  /\ isAnalyzing
  /\ inFlight = 1
  /\ dropped = file
  /\ pc = "lightingAnalysis"

\* C28: across any interleaving of calls of performAIAnalysis, each of the two
\* pipelines is created at most once, a model that is set is never created
\* again, and a call that initializeModels answered true has both models.
ModelsCreatedOnce ==
  /\ \A m \in ModelNames : created[m] <= 1
  /\ \A c \in Callers :
       init[c] = "true" => imageClassifier # 0 /\ objectDetector # 0

\* Two calls overlapped and the classifier pipeline was created twice, the
\* second replacing the first.
ModelCreatedTwice ==
  /\ created["imageClassifier"] = 2
  /\ imageClassifier = 2

\* C29: every 'Extract Current Frame' that gets a data URL adds exactly one
\* frame and drops none, whatever clicks wait for 'seeked': the stored list is
\* the list of the frames obtained since it was cleared, and the list passed
\* to onFrameAnalysis is the stored one.
FramesKept ==
  /\ extractedFrames = obtained
  /\ reported = extractedFrames

\* Two clicks got a data URL each, and one frame is stored.
FrameDropped ==
  /\ pending = <<>>
  /\ Len(obtained) = 2
  /\ Len(extractedFrames) = 1

\* C30: every value a filter stores lies in [0, 255] before it is stored, the
\* min(255, ...) of the edge magnitude, texture value and lighting gradient
\* being the only clamps at work: the luminance lies in [0, 255], so that
\* 0.5L + 0.5e <= 255 and 0.3L <= 76.5, and the Color blends lie in [0, 255],
\* [0, 204] and [0, 153]. The Color output has R <= 255, G <= 204 and
\* B <= 153, the Texture output R >= G >= B, the Edge output three equal
\* samples.
StoredValuesInRange ==
  /\ Ran("colorDistribution") =>
       \A x \in Xs(imageData), y \in Ys(imageData) :
         LET in == PixelAt(imageData, x, y)
             artificialness == Artificialness(in[1], in[2], in[3])
             \* the value stored for sample c under weight w / 10, times den
             num(c, w) == 3 * c * artificialness[2] + w * artificialness[1]
             den == 10 * artificialness[2]
             out == PixelAt(outputData["colorDistribution"], x, y)
         IN /\ 0 <= num(in[1], 7) /\ num(in[1], 7) <= 255 * den
            /\ 0 <= num(in[2], 5) /\ num(in[2], 5) <= 204 * den
            /\ 0 <= num(in[3], 3) /\ num(in[3], 3) <= 153 * den
            /\ out[1] <= 255 /\ out[2] <= 204 /\ out[3] <= 153
  /\ Ran("lightingAnalysis") =>
       \A x \in Xs(imageData), y \in Ys(imageData) :
         ~InRing(imageData, 1, x, y) =>
           LET luminance == Luminance1000(imageData.data, (y * imageData.width + x) * 4)
               out == PixelAt(outputData["lightingAnalysis"], x, y)
           IN /\ 0 <= luminance /\ luminance <= 255 * 1000
              /\ out[2] \in 0 .. 255
              \* 0.5L <= R <= 0.5L + 127.5 and B <= 76.5, as stored
              /\ 2000 * out[1] + 1000 >= luminance
              /\ 2000 * out[1] - 1000 <= luminance + 255 * 1000
              /\ 2 * out[3] <= 153
  /\ Ran("textureAnalysis") =>
       \A x \in Xs(imageData), y \in Ys(imageData) :
         ~InRing(imageData, 2, x, y) =>
           LET out == PixelAt(outputData["textureAnalysis"], x, y)
           IN /\ 255 >= out[1] /\ out[1] >= out[2] /\ out[2] >= out[3] /\ out[3] >= 0
              /\ out[2] <= 204 /\ out[3] <= 153
  /\ Ran("edgeDetection") =>
       \A x \in Xs(imageData), y \in Ys(imageData) :
         ~InRing(imageData, 1, x, y) =>
           LET out == PixelAt(outputData["edgeDetection"], x, y)
           IN out[1] \in 0 .. 255 /\ out[2] = out[1] /\ out[3] = out[1]

\* The four filters have run on an image with a white pixel whose luminance,
\* lighting gradient, texture value and colour blends sit at the upper ends.
StoredValuesWitness ==
  /\ \A n \in ViewNames : Ran(n)
  /\ \E x \in Xs(imageData), y \in Ys(imageData) :
       /\ ~InRing(imageData, 2, x, y)
       /\ PixelAt(imageData, x, y) = White
       /\ PixelAt(outputData["colorDistribution"], x, y) = <<255, 204, 153, 255>>
       /\ PixelAt(outputData["lightingAnalysis"], x, y) = <<255, 255, 76, 255>>
       /\ PixelAt(outputData["textureAnalysis"], x, y) = <<255, 204, 153, 255>>
       /\ PixelAt(outputData["edgeDetection"], x, y)[1] = 255

============================================================================
